---------------------------- MODULE Spec2Model ----------------------------
(***************************************************************************)
(* A model of bids_manager/dicom_inventory.py: the sequence dictionary     *)
(* (BIDS_PATTERNS, load/restore), guess_modality and the passes of         *)
(* scan_dicoms_long.                                                       *)
(*                                                                         *)
(* Python strings are TLA+ strings; TLC evaluates Len, \o, SubSeq, Head    *)
(* and Tail on them.  A dict is a sequence of entries in insertion order   *)
(* or a function whose DOMAIN is the set of keys present.                  *)
(***************************************************************************)
EXTENDS Integers, Sequences, FiniteSets, TLC

VARIABLES
    BIDS_PATTERNS,   \* the active pattern table: <<[label, pats]>> in dict order
    seq_dict_file,   \* SEQ_DICT_FILE on disk: absent, unreadable or rows
    last_call,       \* history: the call that produced this state
    prev_call,       \* history: the call before it
    prev_patterns,   \* history: BIDS_PATTERNS before the last call
    prev_file,       \* history: seq_dict_file before the last call
    guessed,         \* the last guess_modality call: [series, label, table]
    root_dir,        \* the directory tree scan_dicoms_long is given
    pc,              \* position of scan_dicoms_long
    results,         \* line 285: the per-file extraction results, in list order
    idx,             \* number of results the aggregation loop has merged
    demo, counts, mods, acq_times, imgtypes, sessset,   \* the in-memory stores
    bids_map,        \* PASS 2: subj_key -> "sub-NNN"
    rows,            \* PASS 3: the list of row dicts
    df,              \* the DataFrame (a sequence of rows)
    raw_img_type,    \* an ImageType value handed to normalize_image_type
    normalized       \* the list normalize_image_type returned for it

dictVars == <<BIDS_PATTERNS, seq_dict_file, last_call, prev_call,
              prev_patterns, prev_file, guessed>>
scanVars == <<root_dir, pc, results, idx, demo, counts, mods, acq_times, imgtypes,
              sessset, bids_map, rows, df>>
normVars == <<raw_img_type, normalized>>
vars == <<dictVars, scanVars, normVars>>

-----------------------------------------------------------------------------
(* Strings *)

\* The characters the model's strings are made of, in code-point order.
Alphabet == " ',-.0123456789ABCDEFGHIJKLMNOPQRSTUVWXYZ[\\]_abcdefghijklmnopqrstuvwxyz|"
UpperCase == "ABCDEFGHIJKLMNOPQRSTUVWXYZ"
LowerCase == "abcdefghijklmnopqrstuvwxyz"
Digits == "0123456789"

Ch(s, i) == SubSeq(s, i, i)

IndexIn(c, s) == CHOOSE i \in 1..Len(s) : Ch(s, i) = c

IsIn(c, s) == \E i \in 1..Len(s) : Ch(s, i) = c

\* ord(c)
Ord(c) == IndexIn(c, Alphabet)

\* str.lower()
LowerCh(c) == IF IsIn(c, UpperCase) THEN Ch(LowerCase, IndexIn(c, UpperCase)) ELSE c

RECURSIVE Lower(_)
Lower(s) == IF s = "" THEN "" ELSE LowerCh(Head(s)) \o Lower(Tail(s))

\* str.strip(): the whitespace of the model's alphabet is the blank
RECURSIVE LStrip(_)
LStrip(s) == IF s # "" /\ Head(s) = " " THEN LStrip(Tail(s)) ELSE s

RECURSIVE RStrip(_)
RStrip(s) ==
    IF s # "" /\ Ch(s, Len(s)) = " " THEN RStrip(SubSeq(s, 1, Len(s) - 1)) ELSE s

Strip(s) == RStrip(LStrip(s))

\* p in s
Contains(p, s) ==
    \E i \in 1..(Len(s) - Len(p) + 1) : SubSeq(s, i, i + Len(p) - 1) = p

\* a < b on str: the first differing character decides, a proper prefix is less
RECURSIVE StrLess(_, _)
StrLess(a, b) ==
    IF b = "" THEN FALSE
    ELSE IF a = "" THEN TRUE
    ELSE IF Head(a) = Head(b) THEN StrLess(Tail(a), Tail(b))
    ELSE Ord(Head(a)) < Ord(Head(b))

\* text[:n]
Prefix(s, n) == SubSeq(s, 1, IF Len(s) < n THEN Len(s) ELSE n)

\* sorted(S) of a set under a strict total order, and the stable sort of a list
SortSet(S, Less(_, _)) ==
    [i \in 1..Cardinality(S) |->
        CHOOSE x \in S : Cardinality({y \in S : Less(y, x)}) = i - 1]

StableSort(s, Less(_, _)) ==
    LET before(i, j) == Less(s[i], s[j]) \/ (~Less(s[j], s[i]) /\ i < j)
        order == SortSet(1..Len(s), before)
    IN  [k \in 1..Len(s) |-> s[order[k]]]

Range(s) == {s[i] : i \in 1..Len(s)}

-----------------------------------------------------------------------------
(* 1. Patterns: SeriesDescription -> fine-grained modality label *)

Entry(label, pats) == [label |-> label, pats |-> pats]

\* the built-in table, in definition order
DEFAULT_BIDS_PATTERNS ==
    << Entry("T1w", <<"t1w", "t1-weight", "t1_", "t1 ", "mprage", "tfl3d", "fspgr">>),
       Entry("T2w", <<"t2w", "space", "tse">>),
       Entry("FLAIR", <<"flair">>),
       Entry("MTw", <<"gre-mt", "gre_mt", "mt">>),
       Entry("PDw", <<"gre-nm", "gre_nm">>),
       Entry("scout", <<"localizer", "scout">>),
       Entry("report", <<"phoenixzipreport", "phoenix document", ".pdf", "report">>),
       Entry("refscan", <<"type-ref", "reference", "refscan">>),
       Entry("bold", <<"fmri", "bold", "task-">>),
       Entry("SBRef", <<"sbref">>),
       Entry("dwi", <<"dti", "dwi", "diff">>),
       Entry("fmap", <<"gre_field", "fieldmapping", "_fmap", "fmap", "phase",
                       "magnitude", "b0rf", "b0_map", "b0map">>),
       Entry("physio", <<"physiolog", "physio", "pulse", "resp">>) >>

\* The states of SEQ_DICT_FILE
Absent == [kind |-> "absent", rows |-> <<>>]
Unreadable == [kind |-> "unreadable", rows |-> <<>>]
Tsv(rs) == [kind |-> "tsv", rows |-> rs]
Row(m, p) == [modality |-> m, pattern |-> p]

\* patterns[mod].append(pat) on the insertion-ordered defaultdict(list)
AppendPattern(patterns, mod, pat) ==
    IF \E i \in 1..Len(patterns) : patterns[i].label = mod
    THEN LET i == CHOOSE j \in 1..Len(patterns) : patterns[j].label = mod
         IN  [patterns EXCEPT ![i].pats = Append(@, pat)]
    ELSE Append(patterns, Entry(mod, <<pat>>))

\* the loop over df.iterrows() from row i on
RECURSIVE CollectPatterns(_, _, _)
CollectPatterns(rs, i, patterns) ==
    IF i > Len(rs) THEN patterns
    ELSE LET mod == Strip(rs[i].modality)
             pat == Lower(Strip(rs[i].pattern))
         IN  CollectPatterns(rs, i + 1,
                 IF mod # "" /\ pat # "" THEN AppendPattern(patterns, mod, pat)
                 ELSE patterns)

\* The table load_sequence_dictionary leaves, from the table and the file
LoadedPatterns(table, file) ==
    IF file.kind = "absent" THEN table
    ELSE IF file.kind = "unreadable" THEN table
    ELSE LET patterns == CollectPatterns(file.rows, 1, <<>>)
         IN  IF patterns # <<>> THEN patterns ELSE table

\* A variant that lets the last matching entry win
RECURSIVE LastMatch(_, _, _)
LastMatch(table, s, i) ==
    IF i > Len(table) THEN "unknown"
    ELSE LET later == LastMatch(table, s, i + 1)
         IN  IF later # "unknown" THEN later
             ELSE IF \E k \in 1..Len(table[i].pats) : Contains(table[i].pats[k], s)
             THEN table[i].label
             ELSE "unknown"

\* The label of the first entry from i on one of whose patterns occurs in s
RECURSIVE FirstMatch(_, _, _)
FirstMatch(table, s, i) ==
    IF i > Len(table) THEN "unknown"
    ELSE IF \E k \in 1..Len(table[i].pats) : Contains(table[i].pats[k], s)
         THEN table[i].label
         ELSE FirstMatch(table, s, i + 1)

GuessIn(table, series) == FirstMatch(table, Lower(series), 1)

guess_modality(series) == GuessIn(BIDS_PATTERNS, series)

\* The override files the preference editor may leave on disk
PrefFiles ==
    { Unreadable,
      Tsv(<< Row("fmap", "t1"), Row("T1w", "t1w"), Row("fmap", "Phase ") >>),
      Tsv(<< Row(" bold ", "FMRI"), Row("SBRef", "sbref"), Row("bold", "task-") >>),
      Tsv(<< Row("", "t1w"), Row("T1w", " ") >>),
      Tsv(<< >>) }

\* The descriptions guess_modality is asked about
Descriptions ==
    { "t1w", "T1_MPRAGE", "t2_space", "localizer", "task-rest_sbref",
      "fMRI_sbref", "gre_field_mapping", "dti_report", "mt_phase", "physlog",
      "survey" }

DictInit(files) ==
    /\ seq_dict_file \in files
    /\ BIDS_PATTERNS = LoadedPatterns(DEFAULT_BIDS_PATTERNS, seq_dict_file)
    /\ last_call = "load"
    /\ prev_call = "import"
    /\ prev_patterns = DEFAULT_BIDS_PATTERNS
    /\ prev_file = seq_dict_file
    /\ guessed = [series |-> "", label |-> "unknown", table |-> BIDS_PATTERNS]

Called(name) ==
    /\ last_call' = name
    /\ prev_call' = last_call
    /\ prev_patterns' = BIDS_PATTERNS
    /\ prev_file' = seq_dict_file

load_sequence_dictionary ==
    /\ BIDS_PATTERNS' = LoadedPatterns(BIDS_PATTERNS, seq_dict_file)
    /\ Called("load")
    /\ UNCHANGED <<seq_dict_file, guessed>>

\* A variant that leaves SEQ_DICT_FILE on disk
restore_without_unlink ==
    /\ BIDS_PATTERNS' = DEFAULT_BIDS_PATTERNS
    /\ Called("restore")
    /\ UNCHANGED <<seq_dict_file, guessed>>

restore_sequence_dictionary ==
    /\ BIDS_PATTERNS' = DEFAULT_BIDS_PATTERNS
    /\ seq_dict_file' = Absent
    /\ Called("restore")
    /\ UNCHANGED guessed

\* The preference editor writes SEQ_DICT_FILE
SavePreferences ==
    /\ \E f \in PrefFiles : seq_dict_file' = f
    /\ Called("save")
    /\ UNCHANGED <<BIDS_PATTERNS, guessed>>

GuessModality ==
    /\ \E d \in Descriptions :
          guessed' = [series |-> d, label |-> guess_modality(d),
                      table |-> BIDS_PATTERNS]
    /\ UNCHANGED <<BIDS_PATTERNS, seq_dict_file, last_call, prev_call,
                   prev_patterns, prev_file>>

-----------------------------------------------------------------------------
(* ImageType *)

MAGNITUDE_IMGTYPE == <<"ORIGINAL", "PRIMARY", "M", "ND", "NORM">>
PHASE_IMGTYPE == <<"ORIGINAL", "PRIMARY", "P", "ND">>

\* The forms an ImageType value arrives in
NoImageType == [kind |-> "none", list |-> <<>>, text |-> ""]
ListImageType(l) == [kind |-> "list", list |-> l, text |-> ""]
TextImageType(t) == [kind |-> "text", list |-> <<>>, text |-> t]

\* text.split(sep) for a one-character sep
RECURSIVE SplitFrom(_, _, _, _)
SplitFrom(text, sep, i, cur) ==
    IF i > Len(text) THEN <<cur>>
    ELSE IF Ch(text, i) = sep THEN <<cur>> \o SplitFrom(text, sep, i + 1, "")
    ELSE SplitFrom(text, sep, i + 1, cur \o Ch(text, i))

Split(text, sep) == SplitFrom(text, sep, 1, "")

\* p.strip("'")
RECURSIVE StripQuotes(_)
StripQuotes(s) ==
    IF s # "" /\ Head(s) = "'" THEN StripQuotes(Tail(s))
    ELSE IF s # "" /\ Ch(s, Len(s)) = "'" THEN StripQuotes(SubSeq(s, 1, Len(s) - 1))
    ELSE s

normalize_image_type(value) ==
    IF value.kind = "none" THEN <<>>
    ELSE IF value.kind = "list"
    THEN [i \in 1..Len(value.list) |-> Strip(value.list[i])]
    ELSE IF Contains("\\", value.text)
    THEN LET ps == Split(value.text, "\\")
         IN  [i \in 1..Len(ps) |-> Strip(ps[i])]
    ELSE LET text == Strip(value.text)
         IN  IF text # "" /\ Head(text) = "[" /\ Ch(text, Len(text)) = "]"
             THEN LET ps == Split(SubSeq(text, 2, Len(text) - 1), ",")
                  IN  [i \in 1..Len(ps) |-> StripQuotes(Strip(ps[i]))]
             ELSE IF text # "" THEN <<text>> ELSE <<>>

classify_fieldmap_type(img_list) ==
    IF img_list = MAGNITUDE_IMGTYPE THEN "M"
    ELSE IF img_list = PHASE_IMGTYPE THEN "P"
    ELSE ""

-----------------------------------------------------------------------------
(* 2. Map fine label -> top-level BIDS container *)

modality_to_container(mod) ==
    IF mod \in {"T1w", "T2w", "FLAIR", "MTw", "PDw", "scout", "report", "refscan"}
    THEN "anat"
    ELSE IF mod \in {"bold", "SBRef"} THEN "func"
    ELSE IF mod = "dwi" THEN "dwi"
    ELSE IF mod = "fmap" THEN "fmap"
    ELSE ""

\* SESSION_RE.search(series): the leftmost "ses-" (any case) followed by an
\* alphanumeric character; the group is the longest alphanumeric run
IsAlnum(c) == IsIn(c, UpperCase) \/ IsIn(c, LowerCase) \/ IsIn(c, Digits)

RECURSIVE AlnumRun(_, _)
AlnumRun(s, i) ==
    IF i <= Len(s) /\ IsAlnum(Ch(s, i)) THEN Ch(s, i) \o AlnumRun(s, i + 1) ELSE ""

SessionMatches(s) ==
    {i \in 1..(Len(s) - 4) :
        Lower(SubSeq(s, i, i + 3)) = "ses-" /\ IsAlnum(Ch(s, i + 4))}

\* sess_tag; None is "" (the code only tests its truth)
SessionTag(series) ==
    LET ms == SessionMatches(series)
    IN  IF ms = {} THEN ""
        ELSE LET i == CHOOSE j \in ms : \A k \in ms : j <= k
             IN  "ses-" \o AlnumRun(series, i + 4)

-----------------------------------------------------------------------------
(* 3. Main scanner *)

\* dict helpers: d.get(k, default) and d[k] = v
Get(d, k, default) == IF k \in DOMAIN d THEN d[k] ELSE default
Put(d, k, v) == [x \in DOMAIN d \cup {k} |-> IF x = k THEN v ELSE d[x]]
EmptyDict == [x \in {} |-> 0]

\* _read_one returns None for a file pydicom cannot read
None == [ok |-> FALSE]

\* One DICOM file of the tree: whether dcmread succeeds, the directory it is
\* in relative to root_dir, and the header attributes the scanner reads.
_read_one(root, f) ==
    IF ~f.decodable THEN None
    ELSE
    LET given == IF f.given_name # "" THEN Strip(f.given_name) ELSE ""
        pid == Strip(f.PatientID)
        subj == IF given # "" THEN given ELSE IF pid # "" THEN pid ELSE "UNKNOWN"
        study0 == IF f.StudyDescription # "" THEN f.StudyDescription
                  ELSE IF f.StudyName # "" THEN f.StudyName ELSE "n/a"
        study == Strip(study0)
        series == Strip(f.SeriesDescription)
        img_list == normalize_image_type(f.ImageType)
        cls == classify_fieldmap_type(img_list)
        img3 == IF cls # "" THEN cls
                ELSE IF Len(img_list) >= 3 THEN img_list[3] ELSE ""
    IN  [ ok |-> TRUE,
          subj_key |-> subj \o "||" \o study,
          folder |-> IF f.dir = "." THEN root ELSE f.dir,
          series |-> series,
          uid |-> f.SeriesInstanceUID,
          modality |-> guess_modality(series),
          img3 |-> img3,
          acq_time |-> Strip(f.AcquisitionTime),
          sess_tag |-> SessionTag(series),
          demo |-> [ GivenName |-> given,
                     FamilyName |-> Strip(f.family_name),
                     PatientID |-> pid,
                     PatientSex |-> Strip(f.PatientSex),
                     PatientAge |-> Strip(f.PatientAge),
                     StudyDescription |-> study ] ]

\* The in-memory stores as one value
EmptyStores ==
    [ demo |-> EmptyDict, counts |-> EmptyDict, mods |-> EmptyDict,
      acq_times |-> EmptyDict, imgtypes |-> EmptyDict, sessset |-> EmptyDict ]

Stores ==
    [ demo |-> demo, counts |-> counts, mods |-> mods,
      acq_times |-> acq_times, imgtypes |-> imgtypes, sessset |-> sessset ]

\* The body of the loop over results (lines 286-303)
MergeInto(S, res) ==
    IF ~res.ok THEN S
    ELSE
    LET key == <<res.subj_key, res.folder, <<res.series, res.uid>>>>
        fk == <<res.subj_key, res.folder>>
    IN  [ counts |-> Put(S.counts, key, Get(S.counts, key, 0) + 1),
          mods |-> Put(S.mods, key, res.modality),
          imgtypes |-> IF key \notin DOMAIN S.imgtypes
                       THEN Put(S.imgtypes, key, res.img3) ELSE S.imgtypes,
          acq_times |-> IF key \notin DOMAIN S.acq_times /\ res.acq_time # ""
                        THEN Put(S.acq_times, key, res.acq_time) ELSE S.acq_times,
          sessset |-> IF res.sess_tag # ""
                      THEN Put(S.sessset, fk, Get(S.sessset, fk, {}) \cup {res.sess_tag})
                      ELSE S.sessset,
          demo |-> IF res.subj_key \notin DOMAIN S.demo
                   THEN Put(S.demo, res.subj_key, res.demo) ELSE S.demo ]

\* subj_key.split("||", 1): the parts before and after the first "||"
SplitKey(subj_key) ==
    LET at == {i \in 1..(Len(subj_key) - 1) : SubSeq(subj_key, i, i + 1) = "||"}
        i == CHOOSE j \in at : \A k \in at : j <= k
    IN  <<SubSeq(subj_key, 1, i - 1), SubSeq(subj_key, i + 2, Len(subj_key))>>

\* f"sub-{n:03d}"
SubCode(n) ==
    "sub-" \o (IF n < 10 THEN "00" ELSE IF n < 100 THEN "0" ELSE "") \o ToString(n)

\* PASS 2: assign BIDS subject numbers per study
study_subjects(dm) ==
    LET studies == {SplitKey(k)[2] : k \in DOMAIN dm}
    IN  [stud \in studies |->
            {SplitKey(k)[1] : k \in {k2 \in DOMAIN dm : SplitKey(k2)[2] = stud}}]

AssignBidsMap(dm) ==
    LET ss == study_subjects(dm)
        code(study, sid) ==
            LET sorted == SortSet(ss[study], StrLess)
            IN  SubCode(CHOOSE i \in 1..Len(sorted) : sorted[i] = sid)
        pairs == UNION {{<<sid, study>> : sid \in ss[study]} : study \in DOMAIN ss}
    IN  [k \in {pr[1] \o "||" \o pr[2] : pr \in pairs} |->
            LET pr == CHOOSE q \in pairs : q[1] \o "||" \o q[2] = k
            IN  code(pr[2], pr[1])]

\* tuple comparison: (series, uid), then tuples of strings of one length
KeyLess(a, b) == StrLess(a[1], b[1]) \/ (a[1] = b[1] /\ StrLess(a[2], b[2]))

LexLess(a, b) ==
    \E i \in 1..Len(a) : (\A j \in 1..(i - 1) : a[j] = b[j]) /\ StrLess(a[i], b[i])

\* the order of the nested loops of PASS 3: sorted(counts), then
\* sorted(counts[subj_key]), then sorted(counts[subj_key][folder].items())
LoopLess(a, b) ==
    \/ StrLess(a[1], b[1])
    \/ a[1] = b[1] /\ StrLess(a[2], b[2])
    \/ a[1] = b[1] /\ a[2] = b[2] /\ KeyLess(a[3], b[3])

\* str(n) of the rep column, "" when blank
RepText(n) == IF n > 1 THEN ToString(n) ELSE ""

\* decide session label for this folder (lines 331-332)
SessionLabelFirstTag(tags) ==
    LET ses_labels == SortSet(tags, StrLess)
    IN  IF Len(ses_labels) >= 1 THEN ses_labels[1] ELSE ""

SessionLabel(tags) ==
    LET ses_labels == SortSet(tags, StrLess)
    IN  IF Len(ses_labels) = 1 THEN ses_labels[1] ELSE ""

\* lines 338-340
IncludeFlagCaseSensitive(fine_mod, series) ==
    IF fine_mod \in {"scout", "report"} \/ Contains("physlog", series) THEN 0 ELSE 1

IncludeFlag(fine_mod, series) ==
    IF fine_mod \in {"scout", "report"} \/ Contains("physlog", Lower(series))
    THEN 0 ELSE 1

\* PASS 3 from the i-th key of the loop order on; rep_counter is the counter
\* of the current folder, acc the rows appended so far
RECURSIVE RowsLoop(_, _, _, _, _, _)
RowsLoop(S, bmap, keys, i, rep_counter, acc) ==
    IF i > Len(keys) THEN acc
    ELSE
    LET subj_key == keys[i][1]
        folder == keys[i][2]
        series == keys[i][3][1]
        uid == keys[i][3][2]
        first_row == i = 1 \/ keys[i - 1][1] # subj_key
        new_folder == first_row \/ keys[i - 1][2] # folder
        counter == IF new_folder THEN EmptyDict ELSE rep_counter
        session == SessionLabel(Get(S.sessset, <<subj_key, folder>>, {}))
        fine_mod == S.mods[keys[i]]
        img3 == Get(S.imgtypes, keys[i], "")
        include == IncludeFlag(fine_mod, series)
        rep_key == IF fine_mod = "scout" THEN <<series>> ELSE <<series, img3>>
        n == Get(counter, rep_key, 0) + 1
        row == [ subject |-> IF first_row THEN S.demo[subj_key].GivenName ELSE "",
                 BIDS_name |-> bmap[subj_key],
                 session |-> session,
                 source_folder |-> folder,
                 include |-> include,
                 sequence |-> series,
                 series_uid |-> uid,
                 rep |-> RepText(n),
                 acq_time |-> Get(S.acq_times, keys[i], ""),
                 image_type |-> img3,
                 modality |-> fine_mod,
                 modality_bids |-> modality_to_container(fine_mod),
                 n_files |-> S.counts[keys[i]],
                 GivenName |-> S.demo[subj_key].GivenName,
                 FamilyName |-> S.demo[subj_key].FamilyName,
                 PatientID |-> S.demo[subj_key].PatientID,
                 PatientSex |-> S.demo[subj_key].PatientSex,
                 PatientAge |-> S.demo[subj_key].PatientAge,
                 StudyDescription |-> S.demo[subj_key].StudyDescription ]
    IN  RowsLoop(S, bmap, keys, i + 1, Put(counter, rep_key, n), Append(acc, row))

BuildRowList(S, bmap) ==
    RowsLoop(S, bmap, SortSet(DOMAIN S.counts, LoopLess), 1, EmptyDict, <<>>)

\* sep.join(parts)
RECURSIVE Join(_, _)
Join(parts, sep) ==
    IF parts = <<>> THEN ""
    ELSE IF Len(parts) = 1 THEN parts[1]
    ELSE parts[1] \o sep \o Join(Tail(parts), sep)

\* n_files aggregated with "first" instead of "sum"
FirstFiles(rs) == IF rs = <<>> THEN 0 ELSE Head(rs).n_files

RECURSIVE SumFiles(_)
SumFiles(rs) == IF rs = <<>> THEN 0 ELSE Head(rs).n_files + SumFiles(Tail(rs))

IsFmap(r) == r.modality = "fmap"
NotFmap(r) == r.modality # "fmap"

\* lambda t: str(t)[:4]
AcqGroup(t) == Prefix(t, 4)

base_cols(r) == <<r.BIDS_name, r.session, r.source_folder, r.sequence>>
group_cols(r) == base_cols(r) \o <<AcqGroup(r.acq_time)>>
sort_cols(r) == base_cols(r) \o <<r.acq_time>>

\* groupby(group_cols).agg(...) of one group; rep is assigned afterwards
AggGroup(members) ==
    [ Head(members) EXCEPT
        !.include = IF \E i \in 1..Len(members) : members[i].include = 1 THEN 1 ELSE 0,
        !.series_uid = Join(SortSet({members[i].series_uid : i \in 1..Len(members)},
                                    StrLess), "|"),
        !.image_type = Join(SortSet({members[i].image_type : i \in 1..Len(members)},
                                    StrLess), ""),
        !.n_files = SumFiles(members),
        !.rep = "" ]

\* the groups of fmap_df, in the order of their keys, each in row order
FmapGroups(fmap_df) ==
    LET gkeys == SortSet({group_cols(fmap_df[i]) : i \in 1..Len(fmap_df)}, LexLess)
    IN  [g \in 1..Len(gkeys) |->
            LET InGroup(r) == group_cols(r) = gkeys[g]
            IN  SelectSeq(fmap_df, InGroup)]

SortColsLess(a, b) == LexLess(sort_cols(a), sort_cols(b))

\* cumcount() + 1 within base_cols, shown only where the count exceeds 1
NumberFmapReps(fmap_df) ==
    [i \in 1..Len(fmap_df) |->
        LET same == {j \in 1..Len(fmap_df) : base_cols(fmap_df[j]) = base_cols(fmap_df[i])}
            cum == Cardinality({j \in same : j <= i})
        IN  [fmap_df[i] EXCEPT !.rep = IF Cardinality(same) > 1 THEN ToString(cum) ELSE ""]]

\* Collapse magnitude/phase rows for fieldmaps (lines 372-424)
CollapseFieldmaps(d) ==
    IF ~\E i \in 1..Len(d) : IsFmap(d[i]) THEN d
    ELSE
    LET groups == FmapGroups(SelectSeq(d, IsFmap))
        merged == [g \in 1..Len(groups) |-> AggGroup(groups[g])]
        sorted == StableSort(merged, SortColsLess)
    IN  SelectSeq(d, NotFmap) \o NumberFmapReps(sorted)

\* df.sort_values(["StudyDescription", "BIDS_name"])
FinalLess(a, b) ==
    LexLess(<<a.StudyDescription, a.BIDS_name>>, <<b.StudyDescription, b.BIDS_name>>)

SortFinal(d) == StableSort(d, FinalLess)

-----------------------------------------------------------------------------
(* The directory trees scanned *)

\* The longest file list of a scan
MaxFiles == 3

File(dir, given, pid, sex, study, series, uid, img, time) ==
    [ decodable |-> TRUE, dir |-> dir,
      given_name |-> given, family_name |-> "Doe", PatientID |-> pid,
      PatientSex |-> sex, PatientAge |-> "030Y",
      StudyDescription |-> study, StudyName |-> "",
      SeriesDescription |-> series, SeriesInstanceUID |-> uid,
      ImageType |-> img, AcquisitionTime |-> time ]

Broken == [decodable |-> FALSE]

Magnitude == ListImageType(MAGNITUDE_IMGTYPE)
Phase == ListImageType(PHASE_IMGTYPE)

\* root_dir -> the files that may lie under it
Trees ==
    [ fmaps |->
        { File("sub1", "Alice", "P01", "F", "S1", "gre_field", "1.1", Magnitude, "120059"),
          File("sub1", "Alice", "P01", "F", "S1", "gre_field", "1.2", Phase, "120101"),
          File("sub1", "Alice", "P01", "F", "S1", "gre_field", "1.3", Phase, "120057"),
          File("sub1", "Alice", "P01", "F", "S1", "t1_mprage", "1.4", Magnitude, "115900"),
          File("sub1", "Alice", "P01", "F", "S1", "fmap_PhysLog", "1.5",
               TextImageType("ORIGINAL\\PRIMARY\\P\\ND"), "120200"),
          Broken },
      reps |->
        { File("d1", "Bob", "P02", "M", "S1", "t1w", "2.1",
               TextImageType("['ORIGINAL', 'PRIMARY', 'M', 'ND']"), "100300"),
          File("d1", "Bob", "P02", "M", "S1", "t1w", "2.2",
               TextImageType("['ORIGINAL', 'PRIMARY', 'M', 'ND']"), "100200"),
          File("d1", "Bob", "P02", "M", "S1", "t1w", "2.3",
               TextImageType("['ORIGINAL', 'PRIMARY', 'M', 'ND']"), "100100"),
          File("d1", "Bob", "P02", "M", "S1", "bold_ses-1", "2.4", NoImageType, "101000"),
          File("d1", "Bob", "P02", "M", "S1", "bold_SES-2x_run", "2.5", NoImageType, "102000"),
          File(".", "Bob", "P02", "M", "S1", " localizer", "2.6", NoImageType, ""),
          Broken },
      studies |->
        { File("in", "Alice", "P01", "F", "S1", "gre_field", "3.1", Magnitude, "120000"),
          File("in", "Alice", "P01", "O", "S1", "gre_field", "3.1", Phase, "130000"),
          File("in", "Bob", "P02", "M", "S2", "gre_field", "3.2", Phase, "120010"),
          File("in", "Carol ", "P03", "F", "S1", "PhoenixZIPReport", "3.4", NoImageType, ""),
          File("in", "", "B||a", "M", "S1", "t1w", "3.5", NoImageType, "140000"),
          Broken },
      series |->
        { File("s", "Dana", "P04", "F", "S1", "gre_field", "4.1", NoImageType, ""),
          File("s", "Dana", "P04", "M", "S1", "gre_field", "4.1", Magnitude, "090000"),
          File("s", "Dana", "P04", "F", "S1", "gre_field", "4.1", Phase, "090500"),
          File("s", "Dana", "P04", "F", "S1", "t1w", "4.2", NoImageType, "091000"),
          Broken } ]

FileLists(root) == UNION {[1..n -> Trees[root]] : n \in 0..MaxFiles}

-----------------------------------------------------------------------------
(* scan_dicoms_long, pass by pass *)

ScanInit ==
    /\ root_dir \in DOMAIN Trees
    /\ pc = "start"
    /\ results = <<>>
    /\ idx = 0
    /\ demo = EmptyDict /\ counts = EmptyDict /\ mods = EmptyDict
    /\ acq_times = EmptyDict /\ imgtypes = EmptyDict /\ sessset = EmptyDict
    /\ bids_map = EmptyDict
    /\ rows = <<>>
    /\ df = <<>>

\* PASS 1: walk the tree and read every file (lines 227-285)
ReadAll ==
    /\ pc = "start"
    /\ \E file_list \in FileLists(root_dir) :
          results' = [i \in 1..Len(file_list) |-> _read_one(root_dir, file_list[i])]
    /\ pc' = "merge"
    /\ UNCHANGED <<root_dir, idx, demo, counts, mods, acq_times, imgtypes, sessset,
                   bids_map, rows, df>>
    /\ UNCHANGED <<dictVars, normVars>>

\* one iteration of the loop over results (lines 286-303)
MergeResult ==
    /\ pc = "merge"
    /\ idx < Len(results)
    /\ LET S == MergeInto(Stores, results[idx + 1])
       IN  /\ demo' = S.demo
           /\ counts' = S.counts
           /\ mods' = S.mods
           /\ acq_times' = S.acq_times
           /\ imgtypes' = S.imgtypes
           /\ sessset' = S.sessset
    /\ idx' = idx + 1
    /\ UNCHANGED <<root_dir, pc, results, bids_map, rows, df>>
    /\ UNCHANGED <<dictVars, normVars>>

\* PASS 2 (lines 311-320)
AssignIds ==
    /\ pc = "merge"
    /\ idx = Len(results)
    /\ bids_map' = AssignBidsMap(demo)
    /\ pc' = "rows"
    /\ UNCHANGED <<root_dir, results, idx, demo, counts, mods, acq_times, imgtypes,
                   sessset, rows, df>>
    /\ UNCHANGED <<dictVars, normVars>>

\* PASS 3 and the DataFrame of its rows (lines 324-370)
BuildRows ==
    /\ pc = "rows"
    /\ rows' = BuildRowList(Stores, bids_map)
    /\ df' = rows'
    /\ pc' = "collapse"
    /\ UNCHANGED <<root_dir, results, idx, demo, counts, mods, acq_times, imgtypes,
                   sessset, bids_map>>
    /\ UNCHANGED <<dictVars, normVars>>

\* lines 372-424
CollapseFmap ==
    /\ pc = "collapse"
    /\ df' = CollapseFieldmaps(df)
    /\ pc' = "sort"
    /\ UNCHANGED <<root_dir, results, idx, demo, counts, mods, acq_times, imgtypes,
                   sessset, bids_map, rows>>
    /\ UNCHANGED <<dictVars, normVars>>

\* line 426; the table is returned
FinalSort ==
    /\ pc = "sort"
    /\ df' = SortFinal(df)
    /\ pc' = "done"
    /\ UNCHANGED <<root_dir, results, idx, demo, counts, mods, acq_times, imgtypes,
                   sessset, bids_map, rows>>
    /\ UNCHANGED <<dictVars, normVars>>

\* The table scan_dicoms_long returns for a list of results
Aggregate(res) ==
    LET RECURSIVE Fold(_, _)
        Fold(S, i) == IF i > Len(res) THEN S ELSE Fold(MergeInto(S, res[i]), i + 1)
    IN  Fold(EmptyStores, 1)

ScanTable(res) ==
    LET S == Aggregate(res)
    IN  SortFinal(CollapseFieldmaps(BuildRowList(S, AssignBidsMap(S.demo))))

-----------------------------------------------------------------------------
(* normalize_image_type on its own *)

\* The longest ImageType list
MaxParts == 3

ImageTypeParts == {"ORIGINAL", "PRIMARY", "M", "P"}

ImageTypeLists == UNION {[1..n -> ImageTypeParts] : n \in 0..MaxParts}

\* The three forms a list of components arrives in: the list itself, the
\* components joined by backslashes, and the text str(list) writes
AsList(l) == ListImageType(l)

AsBackslashText(l) == TextImageType(Join(l, "\\"))

AsRendering(l) ==
    TextImageType("[" \o Join([i \in 1..Len(l) |-> "'" \o l[i] \o "'"], ", ") \o "]")

ImageTypeValues ==
    {NoImageType}
        \cup {AsList(l) : l \in ImageTypeLists}
        \cup {AsBackslashText(l) : l \in ImageTypeLists}
        \cup {AsRendering(l) : l \in ImageTypeLists}

\* No call of normalize_image_type is followed
NormIdle == raw_img_type = NoImageType /\ normalized = <<>>

NormInit == raw_img_type \in ImageTypeValues /\ normalized = <<>>

\* normalize_image_type(raw_img_type), as line 261 calls it
NormalizeImageType ==
    /\ pc = "start"
    /\ normalized' = normalize_image_type(raw_img_type)
    /\ pc' = "normalized"
    /\ UNCHANGED <<raw_img_type, root_dir, results, idx, demo, counts, mods,
                   acq_times, imgtypes, sessset, bids_map, rows, df>>
    /\ UNCHANGED dictVars

-----------------------------------------------------------------------------
(* Specifications *)

\* A scan with the built-in table (no persisted override at import)
Init == DictInit({Absent}) /\ ScanInit /\ NormIdle

Next ==
    \/ ReadAll
    \/ MergeResult
    \/ AssignIds
    \/ BuildRows
    \/ CollapseFmap
    \/ FinalSort

Spec == Init /\ [][Next]_vars

\* The scans of one tree
InitFmaps == Init /\ root_dir = "fmaps"
SpecFmaps == InitFmaps /\ [][Next]_vars

InitReps == Init /\ root_dir = "reps"
SpecReps == InitReps /\ [][Next]_vars

InitStudies == Init /\ root_dir = "studies"
SpecStudies == InitStudies /\ [][Next]_vars

InitSeries == Init /\ root_dir = "series"
SpecSeries == InitSeries /\ [][Next]_vars


\* Calls of normalize_image_type
InitNorm == DictInit({Absent}) /\ ScanInit /\ root_dir = "fmaps" /\ NormInit

NextNorm == NormalizeImageType

SpecNorm == InitNorm /\ [][NextNorm]_vars

\* The life of the sequence dictionary
InitDict ==
    DictInit({Absent} \cup PrefFiles) /\ ScanInit /\ root_dir = "fmaps" /\ NormIdle

NextDict ==
    \/ load_sequence_dictionary /\ UNCHANGED <<scanVars, normVars>>
    \/ restore_sequence_dictionary /\ UNCHANGED <<scanVars, normVars>>
    \/ SavePreferences /\ UNCHANGED <<scanVars, normVars>>
    \/ GuessModality /\ UNCHANGED <<scanVars, normVars>>

SpecDict == InitDict /\ [][NextDict]_vars

-----------------------------------------------------------------------------
(* Properties *)

Returned == pc = "done"

\* The SubjectKey a row's demographic columns stand for
RowSubjKey(r) ==
    (IF r.GivenName # "" THEN r.GivenName
     ELSE IF r.PatientID # "" THEN r.PatientID ELSE "UNKNOWN")
    \o "||" \o r.StudyDescription

\* The series identifiers a row stands for
RowUids(r) == Range(Split(r.series_uid, "|"))

\* Seconds since midnight of an HHMMSS time
DigitVal(c) == IndexIn(c, Digits) - 1
TwoDigits(t, i) == 10 * DigitVal(Ch(t, i)) + DigitVal(Ch(t, i + 1))
Seconds(t) == 3600 * TwoDigits(t, 1) + 60 * TwoDigits(t, 3) + TwoDigits(t, 5)
SecondsApart(t, u) ==
    /\ Len(t) = 6 /\ Len(u) = 6
    /\ Seconds(t) - Seconds(u) < 60
    /\ Seconds(u) - Seconds(t) < 60

\* The aggregated series of one subject, folder and description
SameSeries(k) ==
    {k2 \in DOMAIN counts : k2[1] = k[1] /\ k2[2] = k[2] /\ k2[3][1] = k[3][1]}

\* A magnitude and a phase field-map series of one subject, folder and
\* description whose acquisition times are less than a minute apart
FmapPair(k1, k2) ==
    /\ k2 \in SameSeries(k1)
    /\ mods[k1] = "fmap"
    /\ imgtypes[k1] = "M" /\ imgtypes[k2] = "P"
    /\ k1 \in DOMAIN acq_times /\ k2 \in DOMAIN acq_times
    /\ SecondsApart(acq_times[k1], acq_times[k2])

\* C1: in the returned table every magnitude/phase field-map pair of one
\* subject, session, folder and description with acquisition times seconds
\* apart is one row; when the two are the subject's only series of that
\* description, the row has n_files = the sum of their file counts and
\* image_type = "MP".
C1_PairCollapses ==
    Returned =>
        \A k1, k2 \in DOMAIN counts :
            FmapPair(k1, k2) =>
                \E i \in 1..Len(df) :
                    /\ RowSubjKey(df[i]) = k1[1]
                    /\ {k1[3][2], k2[3][2]} \subseteq RowUids(df[i])
                    /\ SameSeries(k1) = {k1, k2} =>
                          /\ df[i].n_files = counts[k1] + counts[k2]
                          /\ df[i].image_type = "MP"

\* The series of k's subject, folder and description that carry k's
\* image-type tag, and k's place among them by acquisition time
SameTag(k) == {k2 \in SameSeries(k) : imgtypes[k2] = imgtypes[k]}

TimeRank(k) ==
    1 + Cardinality({k2 \in SameTag(k) :
                        StrLess(Get(acq_times, k2, ""), Get(acq_times, k, ""))})

DistinctTimes(K) ==
    \A k1, k2 \in K : k1 # k2 => Get(acq_times, k1, "") # Get(acq_times, k2, "")

\* C2: three series of one subject and folder with one description and one
\* image-type tag but distinct series identifiers have rows with rep 1, 2, 3
\* in ascending acquisition-time order; the row of a series that is the only
\* one of its description has a blank rep.
C2_RepNumbering ==
    Returned =>
        \A k \in DOMAIN counts :
            /\ (SameSeries(k) = SameTag(k) /\ Cardinality(SameTag(k)) = 3
                    /\ DistinctTimes(SameTag(k))) =>
                  \E i \in 1..Len(df) :
                      /\ RowSubjKey(df[i]) = k[1]
                      /\ df[i].source_folder = k[2]
                      /\ df[i].series_uid = k[3][2]
                      /\ df[i].rep = ToString(TimeRank(k))
            /\ SameSeries(k) = {k} =>
                  \A i \in 1..Len(df) :
                      (RowSubjKey(df[i]) = k[1] /\ df[i].source_folder = k[2]
                          /\ df[i].series_uid = k[3][2]) => df[i].rep = ""

\* The raw subject identifier and the study of a merged result
RawSubject(res) ==
    IF res.demo.GivenName # "" THEN res.demo.GivenName
    ELSE IF res.demo.PatientID # "" THEN res.demo.PatientID ELSE "UNKNOWN"

Merged == {results[i] : i \in {j \in 1..idx : results[j].ok}}

StudyIds(study) ==
    {RawSubject(res) : res \in {r \in Merged : r.demo.StudyDescription = study}}

\* C3: once PASS 2 has run, the subject of every merged file has the code
\* "sub-" followed by the 3-digit rank of its raw identifier among the
\* distinct identifiers of its study, sorted; so distinct identifiers of one
\* study have distinct codes and a study of n subjects has sub-001 .. sub-n.
C3_SubjectCodes ==
    pc \in {"rows", "collapse", "sort", "done"} =>
        \A res \in Merged :
            LET ids == StudyIds(res.demo.StudyDescription)
                k == 1 + Cardinality({x \in ids : StrLess(x, RawSubject(res))})
            IN  /\ res.subj_key \in DOMAIN bids_map
                /\ bids_map[res.subj_key] = SubCode(k)

\* C4: the returned table is ascending by (StudyDescription, BIDS_name), and
\* the rows of one subject are in ascending order of folder, then of
\* description, then of series identifier.
C4_RowOrder ==
    Returned =>
        \A i, j \in 1..Len(df) :
            i < j =>
                /\ ~FinalLess(df[j], df[i])
                /\ RowSubjKey(df[i]) = RowSubjKey(df[j]) =>
                      ~LexLess(<<df[j].source_folder, df[j].sequence, df[j].series_uid>>,
                               <<df[i].source_folder, df[i].sequence, df[i].series_uid>>)

\* "physlog" occurs in the description, in any mix of cases
HasPhyslog(series) ==
    \E i \in 1..(Len(series) - 6) : Lower(SubSeq(series, i, i + 6)) = "physlog"

\* The rows of PASS 3 a consolidated field-map row was built from
Members(r) ==
    {j \in 1..Len(rows) :
        /\ IsFmap(rows[j])
        /\ base_cols(rows[j]) = base_cols(r)
        /\ rows[j].series_uid \in RowUids(r)}

\* C5: every row of PASS 3 has include = 0 exactly when its fine modality is
\* "scout" or "report" or its description contains "physlog" in any case,
\* and include = 1 otherwise; a consolidated field-map row has the maximum
\* of its members' include flags.
C5_IncludeFlag ==
    /\ \A i \in 1..Len(rows) :
          rows[i].include =
              IF rows[i].modality \in {"scout", "report"} \/ HasPhyslog(rows[i].sequence)
              THEN 0 ELSE 1
    /\ pc \in {"sort", "done"} =>
          \A i \in 1..Len(df) :
              IsFmap(df[i]) =>
                  /\ Members(df[i]) # {}
                  /\ \A j \in Members(df[i]) : rows[j].include <= df[i].include
                  /\ \E j \in Members(df[i]) : rows[j].include = df[i].include

C5_Witness ==
    /\ Returned
    /\ \E i, j \in 1..Len(df) :
          /\ IsFmap(df[i]) /\ Cardinality(RowUids(df[i])) = 2
          /\ df[j].include = 0 /\ df[j].modality = "fmap" /\ HasPhyslog(df[j].sequence)

\* The session tags detected in the merged files of a subject's folder
FolderTags(subj_key, folder) ==
    {res.sess_tag : res \in {r \in Merged : /\ r.subj_key = subj_key
                                            /\ r.folder = folder
                                            /\ r.sess_tag # ""}}

\* C6: the session label of every row is the tag detected in the files of
\* the row's subject and folder when they carry exactly one distinct tag, and
\* is blank when they carry none or several.
C6_SessionResolution ==
    pc \in {"collapse", "sort", "done"} =>
        \A i \in 1..Len(df) :
            LET tags == FolderTags(RowSubjKey(df[i]), df[i].source_folder)
            IN  df[i].session =
                    IF Cardinality(tags) = 1 THEN CHOOSE t \in tags : TRUE ELSE ""

C6_Witness ==
    /\ Returned
    /\ \E i, j \in 1..Len(df) :
          /\ df[i].session = "ses-1"
          /\ df[j].session = "" /\ df[j].source_folder # df[i].source_folder

\* C7: in the returned table the "subject" column holds the given name on
\* the first row of each subject's rows and is blank on the subject's later
\* rows.
C7_SubjectColumn ==
    Returned =>
        \A i \in 1..Len(df) :
            df[i].subject =
                IF \A j \in 1..(i - 1) : RowSubjKey(df[j]) # RowSubjKey(df[i])
                THEN df[i].GivenName ELSE ""

\* The entries of the table a description matches
MatchingEntries(table, series) ==
    {i \in 1..Len(table) :
        \E k \in 1..Len(table[i].pats) : Contains(table[i].pats[k], Lower(series))}

\* C8: guess_modality returns the label of the earliest entry of the table
\* in force that has a pattern occurring in the lower-cased description, and
\* "unknown" when no entry has one; the built-in table's order is T1w, T2w,
\* FLAIR, MTw, PDw, scout, report, refscan, bold, SBRef, dwi, fmap, physio.
C8_FirstMatchWins ==
    /\ LET ms == MatchingEntries(guessed.table, guessed.series)
       IN  IF ms = {} THEN guessed.label = "unknown"
           ELSE \E i \in ms : /\ \A j \in ms : i <= j
                              /\ guessed.label = guessed.table[i].label
    /\ [i \in 1..Len(DEFAULT_BIDS_PATTERNS) |-> DEFAULT_BIDS_PATTERNS[i].label]
          = <<"T1w", "T2w", "FLAIR", "MTw", "PDw", "scout", "report", "refscan",
              "bold", "SBRef", "dwi", "fmap", "physio">>

C8_Witness ==
    /\ guessed.series = "task-rest_sbref"
    /\ guessed.table = DEFAULT_BIDS_PATTERNS
    /\ Cardinality(MatchingEntries(guessed.table, guessed.series)) = 2
    /\ guessed.label = "bold"

\* The orders in which n results can be merged
MergeOrders(n) == {f \in [1..n -> 1..n] : \A i, j \in 1..n : f[i] = f[j] => i = j}

\* The total of n_files of each subject of a table
SubjectTotals(t) ==
    [sk \in {RowSubjKey(t[i]) : i \in 1..Len(t)} |->
        LET Of(r) == RowSubjKey(r) = sk
        IN  SumFiles(SelectSeq(t, Of))]

\* C9: whatever the order in which the extraction results are merged, the
\* aggregation has the same (subject key, folder, SeriesKey) entries with the
\* same file counts, and the returned table has the same total of n_files
\* for each subject.
C9_MergeOrderIndependent ==
    Returned =>
        \A f \in MergeOrders(Len(results)) :
            LET permuted == [i \in 1..Len(results) |-> results[f[i]]]
            IN  /\ Aggregate(permuted).counts = counts
                /\ SubjectTotals(ScanTable(permuted)) = SubjectTotals(df)

\* A file whose rows yield no (modality, pattern) pair
NoPair(file) ==
    \A i \in 1..Len(file.rows) :
        Strip(file.rows[i].modality) = "" \/ Strip(file.rows[i].pattern) = ""

FirstOfSeries(k) ==
    LET obs == {j \in 1..idx : /\ results[j].ok
                               /\ results[j].subj_key = k[1]
                               /\ results[j].folder = k[2]
                               /\ <<results[j].series, results[j].uid>> = k[3]}
    IN  results[CHOOSE j \in obs : \A j2 \in obs : j <= j2]

FirstOfSubject(sk) ==
    LET obs == {j \in 1..idx : results[j].ok /\ results[j].subj_key = sk}
    IN  results[CHOOSE j \in obs : \A j2 \in obs : j <= j2]

\* C11: at every point of the aggregation, the image-type tag and the
\* acquisition time held for a series are those of the first merged
\* observation of the series (nothing is held when that one is empty), so
\* no later observation changes them; and the demographic record held for
\* a subject key is that of its first merged observation.
C11_FirstSeenWins ==
    /\ \A k \in DOMAIN counts :
          /\ Get(imgtypes, k, "") = FirstOfSeries(k).img3
          /\ Get(acq_times, k, "") = FirstOfSeries(k).acq_time
    /\ \A sk \in DOMAIN demo : demo[sk] = FirstOfSubject(sk).demo

\* C12: normalize_image_type returns the list of components l for each of
\* the three forms of l (the list, the backslash-joined text, the text
\* str(l) writes), and returns the empty list for None, "", the empty list
\* and "[]".
C12_NormalizeForms ==
    pc = "normalized" =>
        /\ \A l \in ImageTypeLists :
              raw_img_type \in {AsList(l), AsBackslashText(l), AsRendering(l)}
                  => normalized = l
        /\ raw_img_type \in {NoImageType, TextImageType(""), ListImageType(<<>>),
                              TextImageType("[]")}
              => normalized = <<>>

\* the same without the text "[]"
C12_ExceptEmptyRendering ==
    (pc = "normalized" /\ raw_img_type # TextImageType("[]")) =>
        /\ \A l \in ImageTypeLists :
              raw_img_type \in {AsList(l), AsBackslashText(l), AsRendering(l)}
                  => normalized = l
        /\ raw_img_type \in {NoImageType, TextImageType(""), ListImageType(<<>>)}
              => normalized = <<>>

\* The demographic columns of a row
Demographics(r) ==
    <<r.GivenName, r.FamilyName, r.PatientID, r.PatientSex, r.PatientAge,
      r.StudyDescription>>

\* C13: every field-map row of the consolidated table is built from rows of
\* PASS 3 that all belong to one SubjectKey, so its demographic columns and
\* StudyDescription are those of each of its members.
C13_OneSubjectPerFmapRow ==
    pc \in {"sort", "done"} =>
        \A i \in 1..Len(df) :
            IsFmap(df[i]) =>
                \A j \in Members(df[i]) :
                    /\ RowSubjKey(rows[j]) = RowSubjKey(df[i])
                    /\ Demographics(rows[j]) = Demographics(df[i])

\* The files of the scan whose header was decoded
Decoded == {i \in 1..Len(results) : results[i].ok}

\* The sum of the n_files column of a table
RECURSIVE TotalFiles(_)
TotalFiles(t) == IF t = <<>> THEN 0 ELSE Head(t).n_files + TotalFiles(Tail(t))

\* The rows of a table that are not field-map rows
OtherRows(t) == {t[i] : i \in {j \in 1..Len(t) : NotFmap(t[j])}}

\* C14: the n_files of the rows of PASS 3, of the consolidated table and of
\* the returned table add up to the number of files whose header was
\* decoded, and the rows that are not field-map rows are the same in all
\* three.
C14_FileCountConserved ==
    pc \in {"collapse", "sort", "done"} =>
        /\ TotalFiles(rows) = Cardinality(Decoded)
        /\ TotalFiles(df) = Cardinality(Decoded)
        /\ OtherRows(df) = OtherRows(rows)
        /\ Len(SelectSeq(df, NotFmap)) = Len(SelectSeq(rows, NotFmap))

C14_Witness ==
    /\ Returned
    /\ Cardinality(Decoded) < Len(results)
    /\ \E i \in 1..Len(df) :
          /\ IsFmap(df[i]) /\ Cardinality(RowUids(df[i])) = 2
          /\ df[i].n_files = 2

=============================================================================
